---------------------------- MODULE Spec2Model ----------------------------
(***************************************************************************)
(* Model of the integrated emotion-recognition demo pipeline               *)
(* (demo_pipeline.py) and of the stand-alone biosignal script              *)
(* (passive/model/network/Backtrack.py).                                   *)
(*                                                                         *)
(* Four specifications share the module:                                   *)
(*   SpecFn     one call of one of the numeric / conversion utilities on   *)
(*              an input drawn from a bounded set (call, args, result);    *)
(*   Spec       the IntegratedDemoPipeline object driven by run_demo;      *)
(*   SpecStage  one call of a stage method, or of its row loop, with the   *)
(*              inputs and the outcome kept in args and result;            *)
(*   SpecCalls  the stage methods called repeatedly, in any order, on one  *)
(*              IntegratedDemoPipeline object.                             *)
(*                                                                         *)
(* Conventions.  Python lists are sequences; a 0-based Python index i is   *)
(* the sequence index i + 1.  Real-valued quantities are kept exact:       *)
(* times are integers counting units of 0.2 s, a normalised sample is a    *)
(* fraction [num, den].                                                    *)
(***************************************************************************)
EXTENDS Integers, Sequences, FiniteSets, TLC

VARIABLES
    call,         \* the utility or stage that was called ("idle" before)
    args,         \* its arguments
    result,       \* its return value (SpecCalls: per stage, what its most
                  \* recent successful call returned)
    self,         \* the IntegratedDemoPipeline object: components and stored lists
    fs,           \* the files of output_dir
    cap,          \* the cv2.VideoCapture of process_video_data
    pc,           \* where __init__ / run_demo stands
    returned,     \* the value each prediction stage returned last
    status,       \* how each stage ended
    log,          \* the stages run_demo has called, in call order
    env,          \* what the environment supplied (load outcomes, PPG points read,
                  \* the statement of perform_fusion's try body that raised)
    demo_result   \* the value run_demo returned

fnVars == <<call, args, result>>

pipeVars == <<self, fs, cap, pc, returned, status, log, env, demo_result>>

vars == <<call, args, result, self, fs, cap, pc, returned, status, log, env, demo_result>>

(***************************************************************************)
(* Bounds of the model                                                     *)
(***************************************************************************)
MaxSignalLen == 12   \* longest signal handed to _extract_pulses
MaxPulseLen == 4     \* largest pulse_len handed to _extract_pulses
MaxWindows == 2      \* Backtrack segment loop: signals up to MaxWindows windows
MaxOriginalLen == 60 \* longest 25 Hz input handed to the resampler
MaxSample == 3       \* samples of a resampled signal range over -1 .. MaxSample - 1
MaxNormLen == 3      \* longest signal handed to the normalisation
MaxTick == 10        \* visual timestamps range over 0, 0.4 s, ..., MaxTick * 0.4 s
MaxVisual == 3       \* longest visual list handed to the matcher
MaxBioIdx == 2       \* largest biosignal position handed to the matcher
MaxItems == 2        \* longest list / tuple / array handed to convert_numpy_types
MaxEntries == 1      \* largest dict handed to convert_numpy_types
MaxRows == 3         \* most rows of the input CSV
SamplesPerRow == 55  \* PPG values in a well-formed CSV row
MaxFrames == 5       \* most readable frames of the input video
MaxFaces == 2        \* most faces the detector returns for one frame
MaxTokens == 2       \* most elements of one row's ppg_gr list
MaxTokenRows == 2    \* most rows of a CSV read element by element
MaxCalls == 3        \* most stage calls made on one pipeline object

(***************************************************************************)
(* Program constants                                                       *)
(***************************************************************************)
SEGMENT_LEN == 140
ORIGINAL_HZ == 25
TARGET_HZ == 64
NormScale == 1000
SegmentDuration == 11  \* bio_idx * 2.2 s, in units of 0.2 s
PULSE_LEN == 140       \* pulse_len of the pipeline's _extract_pulses call
ProgressEvery == 5     \* progress is printed every frame_interval * 5 frames

(***************************************************************************)
(* Python built-ins used by the code                                       *)
(***************************************************************************)
Min(a, b) == IF a <= b THEN a ELSE b

Max(a, b) == IF a >= b THEN a ELSE b

Abs(x) == IF x < 0 THEN -x ELSE x

\* range(start, stop, step) for step > 0, as a sequence
PyRange(start, stop, step) ==
    LET n == IF stop <= start THEN 0 ELSE (stop - start + step - 1) \div step
    IN  [i \in 1..n |-> start + (i - 1) * step]

\* s[a:b] for 0 <= a <= b: the slice is clamped to the end of s
PySlice(s, a, b) ==
    LET lo == Min(a, Len(s))
        hi == Min(b, Len(s))
    IN  [i \in 1..(IF hi > lo THEN hi - lo ELSE 0) |-> s[lo + i]]

\* int(p / q) for p >= 0, q > 0: truncation toward zero
PyInt(p, q) == p \div q

\* round(p / q) for p >= 0, q > 0 (no tie occurs for the rates used)
PyRound(p, q) == (2 * p + q) \div (2 * q)

SeqMin(s) == CHOOSE m \in {s[i] : i \in DOMAIN s} : \A j \in DOMAIN s : m <= s[j]

SeqMax(s) == CHOOSE m \in {s[i] : i \in DOMAIN s} : \A j \in DOMAIN s : m >= s[j]

(***************************************************************************)
(* _extract_pulses and the segment loop of Backtrack.py                    *)
(***************************************************************************)
\* mutant: the loop bound without the "+ 1"
ExtractPulsesStopShort(signal, pulse_len) ==
    LET starts == PyRange(0, Len(signal) - pulse_len, pulse_len)
    IN  [k \in DOMAIN starts |-> PySlice(signal, starts[k], starts[k] + pulse_len)]

_extract_pulses(signal, pulse_len) ==
    LET starts == PyRange(0, Len(signal) - pulse_len + 1, pulse_len)
    IN  [k \in DOMAIN starts |-> PySlice(signal, starts[k], starts[k] + pulse_len)]

\* Backtrack.py: for i in range(0, len(x_norm) - SEGMENT_LEN + 1, SEGMENT_LEN)
SegmentLoop(x_norm) ==
    LET starts == PyRange(0, Len(x_norm) - SEGMENT_LEN + 1, SEGMENT_LEN)
    IN  [k \in DOMAIN starts |-> PySlice(x_norm, starts[k], starts[k] + SEGMENT_LEN)]

(***************************************************************************)
(* _upsample_to_64hz and upsample of Backtrack.py                          *)
(*                                                                         *)
(* scipy.signal.resample(x, num) is an external routine returning num      *)
(* samples; its values are not modelled (sample i stands for the input     *)
(* sample nearest before it).                                              *)
(***************************************************************************)
resample(x, num) == [i \in 1..num |-> x[((i - 1) * Len(x)) \div num + 1]]

\* duration_sec * target_rate = original_len * target_rate / original_rate
\* mutant: the target length rounded instead of truncated
TargetLenRounded(original_len, original_rate, target_rate) ==
    PyRound(original_len * target_rate, original_rate)

TargetLen(original_len, original_rate, target_rate) ==
    PyInt(original_len * target_rate, original_rate)

_upsample_to_64hz(x_25hz, original_rate, target_rate) ==
    resample(x_25hz, TargetLen(Len(x_25hz), original_rate, target_rate))

upsample(signal, orig_hz, target_hz) ==
    resample(signal, TargetLen(Len(signal), orig_hz, target_hz))

(***************************************************************************)
(* Normalisation: (x - min) / (max - min) * 1000, element-wise.            *)
(* A sample is the exact fraction num / den; den = 0 (a constant signal)   *)
(* is numpy's 0/0 = nan.                                                   *)
(***************************************************************************)
\* mutant: the offset is not subtracted
NormalizeNoOffset(ppg_64hz) ==
    LET ppg_min == SeqMin(ppg_64hz)
        ppg_max == SeqMax(ppg_64hz)
    IN  [i \in DOMAIN ppg_64hz |->
            [num |-> ppg_64hz[i] * NormScale, den |-> ppg_max - ppg_min]]

Normalize(ppg_64hz) ==
    LET ppg_min == SeqMin(ppg_64hz)
        ppg_max == SeqMax(ppg_64hz)
    IN  [i \in DOMAIN ppg_64hz |->
            [num |-> (ppg_64hz[i] - ppg_min) * NormScale, den |-> ppg_max - ppg_min]]

\* comparisons of fractions with positive denominators
FracLt(a, b) == a.num * b.den < b.num * a.den

FracEqInt(a, n) == a.num = n * a.den

(***************************************************************************)
(* The nearest-timestamp scan of perform_fusion (the inner for loop).      *)
(* The scan state is the pair (best_visual_match, best_time_diff);         *)
(* match = 0 is None and inf = TRUE is float("inf").                       *)
(***************************************************************************)
NoMatch == [match |-> 0, diff |-> 0, inf |-> TRUE]

\* mutant: "<=" instead of "<": the last of several nearest records wins
ScanStepLastWins(bio_idx, visual_predictions, i, best) ==
    LET bio_time == bio_idx * SegmentDuration
        vis_time == visual_predictions[i].timestamp
        time_diff == Abs(bio_time - vis_time)
    IN  IF best.inf \/ time_diff <= best.diff
        THEN [match |-> i, diff |-> time_diff, inf |-> FALSE]
        ELSE best

ScanStep(bio_idx, visual_predictions, i, best) ==
    LET bio_time == bio_idx * SegmentDuration
        vis_time == visual_predictions[i].timestamp
        time_diff == Abs(bio_time - vis_time)
    IN  IF best.inf \/ time_diff < best.diff
        THEN [match |-> i, diff |-> time_diff, inf |-> FALSE]
        ELSE best

RECURSIVE ScanVisual(_, _, _, _)
ScanVisual(bio_idx, visual_predictions, i, best) ==
    IF i > Len(visual_predictions)
    THEN best
    ELSE ScanVisual(bio_idx, visual_predictions, i + 1,
                    ScanStep(bio_idx, visual_predictions, i, best))

\* the index in visual_predictions of best_visual_match (0: None)
BestVisualMatch(bio_idx, visual_predictions) ==
    ScanVisual(bio_idx, visual_predictions, 1, NoMatch)

(***************************************************************************)
(* convert_numpy_types.  A Python value is [t, v, keys, items]: t its      *)
(* type, v a scalar's payload, items the elements of a list / tuple /      *)
(* ndarray or the values of a dict, keys the keys of a dict (keys[i] maps  *)
(* to items[i]).                                                           *)
(***************************************************************************)
PyVal(t, v, keys, items) == [t |-> t, v |-> v, keys |-> keys, items |-> items]

Scalar(t, v) == PyVal(t, v, <<>>, <<>>)

NativeScalarTypes == {"int", "float", "str"}

NumpyScalarTypes == {"np_int", "np_float"}

\* int(obj), float(obj) and ndarray.tolist() on an element
NativeType(t) ==
    CASE t = "np_int" -> "int"
      [] t = "np_float" -> "float"
      [] OTHER -> t

\* ndarray.tolist(): a list of native scalars
ToList(obj) ==
    PyVal("list", 0, <<>>,
          [i \in DOMAIN obj.items |-> Scalar(NativeType(obj.items[i].t), obj.items[i].v)])

RECURSIVE convert_numpy_types(_)
convert_numpy_types(obj) ==
    CASE obj.t = "np_int" -> Scalar("int", obj.v)
      [] obj.t = "np_float" -> Scalar("float", obj.v)
      [] obj.t = "ndarray" -> ToList(obj)
      [] obj.t = "dict" ->
            [obj EXCEPT !.items = [i \in DOMAIN obj.items |-> convert_numpy_types(obj.items[i])]]
      [] obj.t = "list" ->
            [obj EXCEPT !.items = [i \in DOMAIN obj.items |-> convert_numpy_types(obj.items[i])]]
      [] obj.t = "tuple" ->
            [obj EXCEPT !.items = [i \in DOMAIN obj.items |-> convert_numpy_types(obj.items[i])]]
      [] OTHER -> obj

(***************************************************************************)
(* SpecFn: one call of one utility                                         *)
(***************************************************************************)
\* the signal 0, 1, ..., n - 1: every sample names its own index
IndexSignal(n) == [i \in 1..n |-> i - 1]

SeqsUpTo(S, n) == UNION {[1..k -> S] : k \in 0..n}

Samples == {v - 1 : v \in 0..MaxSample}

(***************************************************************************)
(* The pipeline's files and the initial state                              *)
(***************************************************************************)
BioFile == "biosignal_predictions.json"

VisualFile == "visual_predictions.json"

FusedFile == "fused_predictions.json"

SummaryFile == "demo_summary.json"

OutputFiles == {BioFile, VisualFile, FusedFile, SummaryFile}

PredictionStages == {"process_biosignal_data", "process_video_data", "perform_fusion"}

Stages == PredictionStages \cup {"_generate_summary_report"}

File(state, data) == [state |-> state, data |-> data]

\* output_dir is new, or holds the files of an earlier run
StaleRecord == [fusion_id |-> 0]

OutputDirs ==
    {[n \in OutputFiles |-> File("absent", <<>>)],
     [n \in OutputFiles |-> File("stale", <<StaleRecord>>)]}

\* no utility called yet; the pipeline before __init__ runs
Init ==
    /\ call = "idle"
    /\ args = <<>>
    /\ result = <<>>
    /\ self = [biosignal_model |-> "unset", visual_detector |-> "unset",
               fusion_module |-> "unset", biosignal_predictions |-> <<>>,
               visual_predictions |-> <<>>, fused_predictions |-> <<>>]
    /\ fs \in OutputDirs
    /\ cap = "none"
    /\ pc = "start"
    /\ returned = [st \in PredictionStages |-> <<>>]
    /\ status = [st \in Stages |-> "pending"]
    /\ log = <<>>
    /\ env = [weights_ok |-> TRUE, ppg_points |-> -1, fusion_fault |-> "unset"]
    /\ demo_result = [returned |-> FALSE, biosignal_predictions |-> 0,
                      visual_predictions |-> 0, fused_predictions |-> 0]

CallExtractPulses ==
    /\ call = "idle"
    /\ UNCHANGED pipeVars
    /\ \E L \in 0..MaxSignalLen, W \in 1..MaxPulseLen :
        /\ call' = "_extract_pulses"
        /\ args' = [signal |-> IndexSignal(L), pulse_len |-> W]
        /\ result' = _extract_pulses(IndexSignal(L), W)

CallSegmentLoop ==
    /\ call = "idle"
    /\ UNCHANGED pipeVars
    /\ \E k \in 0..MaxWindows, d \in {0, 1, SEGMENT_LEN - 1} :
        /\ call' = "segment_loop"
        /\ args' = [signal |-> IndexSignal(k * SEGMENT_LEN + d), pulse_len |-> SEGMENT_LEN]
        /\ result' = SegmentLoop(IndexSignal(k * SEGMENT_LEN + d))

CallUpsampleTo64hz ==
    /\ call = "idle"
    /\ UNCHANGED pipeVars
    /\ \E L \in 1..MaxOriginalLen :
        /\ call' = "_upsample_to_64hz"
        /\ args' = [x |-> IndexSignal(L), original_rate |-> ORIGINAL_HZ,
                    target_rate |-> TARGET_HZ]
        /\ result' = _upsample_to_64hz(IndexSignal(L), ORIGINAL_HZ, TARGET_HZ)

CallUpsample ==
    /\ call = "idle"
    /\ UNCHANGED pipeVars
    /\ \E L \in 1..MaxOriginalLen :
        /\ call' = "upsample"
        /\ args' = [x |-> IndexSignal(L), original_rate |-> ORIGINAL_HZ,
                    target_rate |-> TARGET_HZ]
        /\ result' = upsample(IndexSignal(L), ORIGINAL_HZ, TARGET_HZ)

CallNormalize ==
    /\ call = "idle"
    /\ UNCHANGED pipeVars
    /\ \E x \in SeqsUpTo(Samples, MaxNormLen) \ {<<>>} :
        /\ call' = "normalize"
        /\ args' = [x |-> x]
        /\ result' = Normalize(x)

\* visual records on a 0.4 s grid, in any order
VisualStubs ==
    SeqsUpTo({[frame_id |-> g, timestamp |-> 2 * g] : g \in 0..MaxTick}, MaxVisual)

CallBestVisualMatch ==
    /\ call = "idle"
    /\ UNCHANGED pipeVars
    /\ \E bio_idx \in 0..MaxBioIdx, vis \in VisualStubs \ {<<>>} :
        /\ call' = "best_visual_match"
        /\ args' = [bio_idx |-> bio_idx, visual_predictions |-> vis]
        /\ result' = BestVisualMatch(bio_idx, vis).match

ScalarValues == {Scalar(t, 1) : t \in NativeScalarTypes \cup NumpyScalarTypes}

ArrayValues ==
    {PyVal("ndarray", 0, <<>>, items) :
        items \in UNION {SeqsUpTo({Scalar(t, 1)}, MaxItems) : t \in NumpyScalarTypes}}

ListsOf(S, n) == {PyVal(t, 0, <<>>, items) : t \in {"list", "tuple"}, items \in SeqsUpTo(S, n)}

\* dicts of up to n entries with distinct scalar keys
DictsOf(S, n) ==
    {PyVal("dict", 0, keys, items) :
        <<keys, items>> \in
            {ki \in SeqsUpTo(ScalarValues, n) \X SeqsUpTo(S, n) :
                /\ Len(ki[1]) = Len(ki[2])
                /\ \A i, j \in DOMAIN ki[1] : ki[1][i] = ki[1][j] => i = j}}

FlatValues ==
    ScalarValues \cup ArrayValues \cup ListsOf(ScalarValues, MaxItems)
        \cup DictsOf(ScalarValues, MaxEntries)

\* one more level of nesting around a flat value
NestedValues ==
    {PyVal(t, 0, <<>>, <<x>>) : t \in {"list", "tuple"}, x \in FlatValues}
        \cup {PyVal("dict", 0, <<k>>, <<x>>) : k \in ScalarValues, x \in FlatValues}

CallConvertNumpyTypes ==
    /\ call = "idle"
    /\ UNCHANGED pipeVars
    /\ \E obj \in FlatValues \cup NestedValues :
        /\ call' = "convert_numpy_types"
        /\ args' = [obj |-> obj]
        /\ result' = [once |-> convert_numpy_types(obj),
                      twice |-> convert_numpy_types(convert_numpy_types(obj))]

FnNext ==
    \/ CallBestVisualMatch
    \/ CallConvertNumpyTypes
    \/ CallExtractPulses
    \/ CallSegmentLoop
    \/ CallUpsampleTo64hz
    \/ CallUpsample
    \/ CallNormalize

SpecFn == Init /\ [][FnNext]_vars

(***************************************************************************)
(* Helpers of the stages                                                   *)
(*                                                                         *)
(* A stage yields an outcome: the object and the files as the stage left   *)
(* them, the value returned, and how the stage ended:                      *)
(*   "unavailable"  the component is None, returned [] before the try      *)
(*   "no_input"     returned [] inside the try (no data, no video)         *)
(*   "raised"       an exception left the try body                         *)
(*   "caught"       the except clause handled it and returned []           *)
(*   "ok"           the success path                                       *)
(* fault names the statement of the body that raises ("none": nothing).    *)
(***************************************************************************)
Outcome(s, f, ret, how) == [self |-> s, fs |-> f, ret |-> ret, how |-> how]

\* cap is the capture's state; detected lists the frames that were handed to
\* detect_emotions
VideoOutcome(s, f, ret, how, c, detected) ==
    [self |-> s, fs |-> f, ret |-> ret, how |-> how, cap |-> c,
     detected |-> detected]

\* mutant: the handler names an exception type the fault is not
ExceptOther(o) == o

\* mutant: the handler also resets the stored lists
ExceptResets(o) ==
    IF o.how = "raised"
    THEN [o EXCEPT !.ret = <<>>, !.how = "caught",
                   !.self.biosignal_predictions = <<>>,
                   !.self.visual_predictions = <<>>,
                   !.self.fused_predictions = <<>>]
    ELSE o

\* except Exception as e: print, (traceback,) return []
ExceptException(o) ==
    IF o.how = "raised" THEN [o EXCEPT !.ret = <<>>, !.how = "caught"] ELSE o

\* a record's fields that hold values of the Python value universe
PyValFields == {"confidence", "fusion_confidence", "average_confidence"}

\* convert_numpy_types on a dict with string keys, and on a list of them
ConvertDict(d) ==
    [k \in DOMAIN d |-> IF k \in PyValFields THEN convert_numpy_types(d[k]) ELSE d[k]]

ConvertList(l) == [i \in DOMAIN l |-> ConvertDict(l[i])]

\* with open(path, "w") as f: json.dump(data, f).  open raising leaves the
\* file alone; json.dump raising leaves it truncated.
WriteJson(f, name, data, fault) ==
    IF fault = "open"
    THEN [fs |-> f, raised |-> TRUE]
    ELSE IF fault = "dump"
    THEN [fs |-> [f EXCEPT ![name] = File("partial", <<>>)], raised |-> TRUE]
    ELSE [fs |-> [f EXCEPT ![name] = File("written", data)], raised |-> FALSE]

(***************************************************************************)
(* __init__ / _initialize_components                                       *)
(***************************************************************************)
\* mutant: the except clause leaves the EmotionCNN() it had already assigned
LoadModelKeepsObject(weights_ok) == "loaded"

\* try: EmotionCNN(), load_state_dict(torch.load(...)), eval()
\* except: self.biosignal_model = None
LoadBiosignalModel(weights_ok) == IF weights_ok THEN "loaded" ELSE "None"

LoadComponent(ok) == IF ok THEN "loaded" ELSE "None"

_initialize_components(s, weights_ok, detector_ok, fusion_ok) ==
    [s EXCEPT !.biosignal_model = LoadBiosignalModel(weights_ok),
              !.visual_detector = LoadComponent(detector_ok),
              !.fusion_module = LoadComponent(fusion_ok)]

(***************************************************************************)
(* process_biosignal_data                                                  *)
(*                                                                         *)
(* A CSV is [readable, rows]; a row is [is_str, parses, n]: whether        *)
(* ppg_gr is a string, whether every element parses as an int, and how     *)
(* many elements it has.  The PPG values themselves are not modelled: a    *)
(* sample stands for its index, and a record's ppg_segment holds the first *)
(* and last index of its window.                                           *)
(***************************************************************************)
\* A row read token by token is [is_str, tokens]: tokens are the pieces of
\* ppg_str.strip("[]").split(","), each [valid, v]: whether int(x.strip())
\* accepts it and the value it then gives.  split never returns an empty list.

\* mutant: the values are added to ppg_data one by one as they parse
PpgValuesSoFar(tokens) ==
    IF \E j \in DOMAIN tokens : ~tokens[j].valid
    THEN LET bad == CHOOSE j \in DOMAIN tokens :
                        ~tokens[j].valid /\ \A h \in 1..(j - 1) : tokens[h].valid
         IN  [values |-> [j \in 1..(bad - 1) |-> tokens[j].v], raised |-> FALSE]
    ELSE [values |-> [j \in DOMAIN tokens |-> tokens[j].v], raised |-> FALSE]

\* ppg_values = [int(x.strip()) for x in ppg_str.split(",")]: the list is
\* built whole, or int() raises ValueError and nothing is bound
PpgValues(tokens) ==
    IF \E j \in DOMAIN tokens : ~tokens[j].valid
    THEN [values |-> <<>>, raised |-> TRUE]
    ELSE [values |-> [j \in DOMAIN tokens |-> tokens[j].v], raised |-> FALSE]

\* the body of the inner try for one row
RowBody(row, ppg_data) ==
    IF row.is_str
    THEN LET ppg_values == PpgValues(row.tokens)
         IN  IF ppg_values.raised
             THEN [ppg_data |-> ppg_data, raised |-> TRUE]
             ELSE [ppg_data |-> ppg_data \o ppg_values.values, raised |-> FALSE]
    ELSE [ppg_data |-> ppg_data, raised |-> FALSE]

\* except Exception as e: print, continue
RowExcept(o) == [o EXCEPT !.raised = FALSE]

\* for idx, row in df.iterrows(), from row idx (1-based) on; rows_read counts
\* the rows the loop got through
RECURSIVE RowLoop(_, _, _)
RowLoop(rows, idx, ppg_data) ==
    IF idx > Len(rows)
    THEN [ppg_data |-> ppg_data, raised |-> FALSE, rows_read |-> Len(rows)]
    ELSE LET o == RowExcept(RowBody(rows[idx], ppg_data))
         IN  IF o.raised
             THEN [ppg_data |-> o.ppg_data, raised |-> TRUE, rows_read |-> idx - 1]
             ELSE RowLoop(rows, idx + 1, o.ppg_data)

\* ppg_data = [] and the loop over the rows
CollectPpgData(rows) == RowLoop(rows, 1, <<>>)

\* the row as the stage model below sees it
RowSummary(row) ==
    [is_str |-> row.is_str,
     parses |-> row.is_str /\ \A j \in DOMAIN row.tokens : row.tokens[j].valid,
     n |-> Len(row.tokens)]

\* the values one row adds to ppg_data
RowValues(row) == IF row.is_str /\ row.parses THEN row.n ELSE 0

RECURSIVE PpgPoints(_)
PpgPoints(rows) ==
    IF rows = <<>> THEN 0 ELSE RowValues(Head(rows)) + PpgPoints(Tail(rows))

\* the windows of the resampled, normalised signal
PpgSegments(ppg_len) ==
    _extract_pulses(IndexSignal(TargetLen(ppg_len, ORIGINAL_HZ, TARGET_HZ)), PULSE_LEN)

BiosignalRecords(segments, outs) ==
    [i \in DOMAIN segments |->
        [segment_id |-> i,
         valence |-> outs[i].valence,
         arousal |-> outs[i].arousal,
         confidence |-> Scalar("float", outs[i].confidence),
         ppg_segment |-> <<segments[i][1], segments[i][Len(segments[i])]>>]]

\* mutant: no early return, the empty list is written and stored
NoValidPpgDataWritten(s, f) ==
    Outcome([s EXCEPT !.biosignal_predictions = <<>>],
            [f EXCEPT ![BioFile] = File("written", <<>>)], <<>>, "ok")

\* if len(ppg_data) == 0: print, return []
NoValidPpgData(s, f) == Outcome(s, f, <<>>, "no_input")

BiosignalBody(s, f, csv, outs, fault) ==
    IF ~csv.readable \/ fault = "read_csv"
    THEN Outcome(s, f, <<>>, "raised")
    ELSE IF PpgPoints(csv.rows) = 0
    THEN NoValidPpgData(s, f)
    ELSE LET segments == PpgSegments(PpgPoints(csv.rows))
             predictions == BiosignalRecords(segments, outs)
             w == WriteJson(f, BioFile, ConvertList(predictions), fault)
         IN  IF fault = "model" /\ segments # <<>>
             THEN Outcome(s, f, <<>>, "raised")
             ELSE IF w.raised
             THEN Outcome(s, w.fs, <<>>, "raised")
             ELSE Outcome([s EXCEPT !.biosignal_predictions = predictions],
                          w.fs, predictions, "ok")

process_biosignal_data(s, f, csv, outs, fault) ==
    IF s.biosignal_model = "None"
    THEN Outcome(s, f, <<>>, "unavailable")
    ELSE ExceptException(BiosignalBody(s, f, csv, outs, fault))

(***************************************************************************)
(* process_video_data                                                      *)
(*                                                                         *)
(* A video is [opened, fps10, frames, total_frames]: whether it opens, the *)
(* reported frame rate in tenths of a frame per second, the frames         *)
(* cap.read() delivers and the reported frame count.  det maps a sampled   *)
(* frame to the list of results detect_emotions returns for it.            *)
(***************************************************************************)
\* mutant: int(fps), one sample a second
FrameIntervalNoDouble(fps10) == fps10 \div 10

\* mutant: max(1, int(fps * 2)), the interval kept positive
FrameIntervalAtLeastOne(fps10) == Max(1, (fps10 * 2) \div 10)

\* int(fps * 2)
FrameInterval(fps10) == (fps10 * 2) \div 10

\* frame_count / fps, in units of 0.2 s
CurrentTime(frame_count, fps10) == (frame_count * 50) \div fps10

FaceRecords(frame_count, fps10, results) ==
    [i \in DOMAIN results |->
        [frame_id |-> frame_count,
         timestamp |-> CurrentTime(frame_count, fps10),
         face_id |-> i - 1,
         emotion |-> results[i].emotion,
         confidence |-> results[i].confidence]]

\* the while loop from frame frame_count (already incremented) on; detected
\* lists the frames handed to detect_emotions so far
RECURSIVE FrameLoop(_, _, _, _, _, _)
FrameLoop(video, det, fault, frame_count, predictions, detected) ==
    IF frame_count > video.frames
    THEN [predictions |-> predictions, detected |-> detected, raised |-> FALSE]
    ELSE IF FrameInterval(video.fps10) = 0
    THEN [predictions |-> predictions, detected |-> detected, raised |-> TRUE]
    ELSE LET frame_interval == FrameInterval(video.fps10)
             sampled == frame_count % frame_interval = 0
             appended ==
                IF sampled
                THEN predictions \o FaceRecords(frame_count, video.fps10, det[frame_count])
                ELSE predictions
             seen == IF sampled THEN Append(detected, frame_count) ELSE detected
         IN  IF sampled /\ fault = "detect"
             THEN [predictions |-> predictions, detected |-> seen, raised |-> TRUE]
             ELSE IF frame_count % (frame_interval * ProgressEvery) = 0
                        /\ video.total_frames = 0
             THEN [predictions |-> appended, detected |-> seen, raised |-> TRUE]
             ELSE FrameLoop(video, det, fault, frame_count + 1, appended, seen)

VideoBody(s, f, video, det, fault) ==
    IF fault = "capture"
    THEN VideoOutcome(s, f, <<>>, "raised", "none", <<>>)
    ELSE IF ~video.opened
    THEN VideoOutcome(s, f, <<>>, "no_input", "closed", <<>>)
    ELSE LET loop == FrameLoop(video, det, fault, 1, <<>>, <<>>)
             predictions == loop.predictions
             w == WriteJson(f, VisualFile, ConvertList(predictions), fault)
         IN  IF loop.raised
             THEN VideoOutcome(s, f, <<>>, "raised", "open", loop.detected)
             ELSE IF w.raised
             THEN VideoOutcome(s, w.fs, <<>>, "raised", "released", loop.detected)
             ELSE VideoOutcome([s EXCEPT !.visual_predictions = predictions],
                               w.fs, predictions, "ok", "released", loop.detected)

process_video_data(s, f, video, det, fault) ==
    IF s.visual_detector = "None"
    THEN VideoOutcome(s, f, <<>>, "unavailable", "none", <<>>)
    ELSE ExceptException(VideoBody(s, f, video, det, fault))

(***************************************************************************)
(* perform_fusion                                                          *)
(*                                                                         *)
(* fuse_predictions of the late fusion module is external: out is the      *)
(* fused prediction it returns.                                            *)
(***************************************************************************)
\* mutant: the ids are the 0-based loop index
FusedRecordZeroBased(bio_idx, best_visual_match, out) ==
    [fusion_id |-> bio_idx,
     biosignal_segment |-> bio_idx,
     visual_frame |-> best_visual_match.frame_id,
     discrete_emotion |-> out.discrete_emotion,
     fusion_confidence |-> out.fusion_confidence]

FusedRecord(bio_idx, best_visual_match, out) ==
    [fusion_id |-> bio_idx + 1,
     biosignal_segment |-> bio_idx + 1,
     visual_frame |-> best_visual_match.frame_id,
     discrete_emotion |-> out.discrete_emotion,
     fusion_confidence |-> out.fusion_confidence]

\* the outer for loop from position bio_idx (0-based) on
RECURSIVE FuseLoop(_, _, _, _, _)
FuseLoop(s, out, fault, bio_idx, fused_predictions) ==
    IF bio_idx >= Len(s.biosignal_predictions)
    THEN [fused |-> fused_predictions, raised |-> FALSE]
    ELSE LET m == BestVisualMatch(bio_idx, s.visual_predictions).match
         IN  IF m # 0
             THEN IF fault = "fuse"
                  THEN [fused |-> fused_predictions, raised |-> TRUE]
                  ELSE FuseLoop(s, out, fault, bio_idx + 1,
                                Append(fused_predictions,
                                       FusedRecord(bio_idx, s.visual_predictions[m], out)))
             ELSE FuseLoop(s, out, fault, bio_idx + 1, fused_predictions)

\* mutant: the result is stored over the visual list
StoreFusedOverVisual(s, fused_predictions) ==
    [s EXCEPT !.visual_predictions = fused_predictions,
              !.fused_predictions = fused_predictions]

\* self.fused_predictions = fused_predictions
StoreFused(s, fused_predictions) == [s EXCEPT !.fused_predictions = fused_predictions]

FusionBody(s, f, out, fault) ==
    LET loop == FuseLoop(s, out, fault, 0, <<>>)
        w == WriteJson(f, FusedFile, ConvertList(loop.fused), fault)
    IN  IF loop.raised
        THEN Outcome(s, f, <<>>, "raised")
        ELSE IF w.raised
        THEN Outcome(s, w.fs, <<>>, "raised")
        ELSE Outcome(StoreFused(s, loop.fused), w.fs, loop.fused, "ok")

perform_fusion(s, f, out, fault) ==
    IF s.fusion_module = "None"
    THEN Outcome(s, f, <<>>, "unavailable")
    ELSE IF s.biosignal_predictions = <<>> /\ s.visual_predictions = <<>>
    THEN Outcome(s, f, <<>>, "no_input")
    ELSE ExceptException(FusionBody(s, f, out, fault))

(***************************************************************************)
(* _generate_summary_report                                                *)
(***************************************************************************)
\* the _analyze_*_predictions methods: {} for an empty list, else the counts
\* per label and np.mean of the confidences (whose value is not modelled)
Analyze(predictions, label) ==
    IF predictions = <<>>
    THEN [distribution |-> <<>>, average_confidence |-> Scalar("none", 0)]
    ELSE [distribution |->
            [v \in {predictions[i][label] : i \in DOMAIN predictions} |->
                Cardinality({i \in DOMAIN predictions : predictions[i][label] = v})],
          average_confidence |-> Scalar("np_float", 1)]

Summary(s) ==
    [prediction_counts |->
        [biosignal |-> Len(s.biosignal_predictions),
         visual |-> Len(s.visual_predictions),
         fused |-> Len(s.fused_predictions)],
     biosignal_summary |-> Analyze(s.biosignal_predictions, "valence"),
     visual_summary |-> Analyze(s.visual_predictions, "emotion"),
     fusion_summary |-> Analyze(s.fused_predictions, "discrete_emotion")]

\* convert_numpy_types on the summary dict
ConvertSummary(summary) ==
    [k \in DOMAIN summary |->
        IF k = "prediction_counts" THEN summary[k] ELSE ConvertDict(summary[k])]

SummaryBody(s, f, fault) ==
    LET w == WriteJson(f, SummaryFile, <<ConvertSummary(Summary(s))>>, fault)
    IN  IF fault = "analyze"
        THEN Outcome(s, f, <<>>, "raised")
        ELSE IF w.raised
        THEN Outcome(s, w.fs, <<>>, "raised")
        ELSE Outcome(s, w.fs, <<>>, "ok")

_generate_summary_report(s, f, fault) == ExceptException(SummaryBody(s, f, fault))

(***************************************************************************)
(* run_demo                                                                *)
(***************************************************************************)
\* mutant: fusion is called before the video stage
StageAtFusionFirst(p) ==
    CASE p = "step1" -> "process_biosignal_data"
      [] p = "step2" -> "perform_fusion"
      [] p = "step3" -> "process_video_data"
      [] p = "step4" -> "_generate_summary_report"

\* the stage each step of run_demo calls
StageAt(p) ==
    CASE p = "step1" -> "process_biosignal_data"
      [] p = "step2" -> "process_video_data"
      [] p = "step3" -> "perform_fusion"
      [] p = "step4" -> "_generate_summary_report"

StepAfter(p) ==
    CASE p = "step1" -> "step2"
      [] p = "step2" -> "step3"
      [] p = "step3" -> "step4"
      [] p = "step4" -> "return"

\* the dict run_demo returns (total_time is not modelled)
DemoResult(s) ==
    [returned |-> TRUE,
     biosignal_predictions |-> Len(s.biosignal_predictions),
     visual_predictions |-> Len(s.visual_predictions),
     fused_predictions |-> Len(s.fused_predictions)]

(***************************************************************************)
(* Inputs of the pipeline                                                  *)
(***************************************************************************)
CsvRows ==
    {[is_str |-> FALSE, parses |-> FALSE, n |-> 0],
     [is_str |-> TRUE, parses |-> FALSE, n |-> SamplesPerRow],
     [is_str |-> TRUE, parses |-> TRUE, n |-> SamplesPerRow]}

CsvInputs ==
    {[readable |-> FALSE, rows |-> <<>>]}
        \cup {[readable |-> TRUE, rows |-> rows] : rows \in SeqsUpTo(CsvRows, MaxRows)}

ModelOutputs ==
    {[valence |-> 0, arousal |-> 1, confidence |-> 1],
     [valence |-> 1, arousal |-> 0, confidence |-> 2]}

BioFaults == {"none", "read_csv", "model", "open", "dump"}

\* reported frame rates, in tenths of a frame per second
VideoRates == {0, 4, 5, 10}

VideoInputs ==
    {[opened |-> FALSE, fps10 |-> 0, frames |-> 0, total_frames |-> 0]}
        \cup {[opened |-> TRUE, fps10 |-> r, frames |-> n, total_frames |-> t] :
                r \in VideoRates, n \in 0..MaxFrames, t \in {0, MaxFrames}}

FaceResult(i) ==
    [emotion |-> IF i % 2 = 1 THEN "happy" ELSE "sad",
     confidence |-> Scalar("np_float", i)]

\* the detector finds k faces in every frame, or (frame + k) mod (MaxFaces + 1)
DetectorRuns ==
    {[frame_count \in 1..MaxFrames |-> [i \in 1..k |-> FaceResult(i)]] : k \in 0..MaxFaces}
        \cup {[frame_count \in 1..MaxFrames |->
                [i \in 1..((frame_count + k) % (MaxFaces + 1)) |-> FaceResult(i)]] :
                    k \in 0..MaxFaces}

VideoFaults == {"none", "capture", "detect", "open", "dump"}

FusionOutputs ==
    {[discrete_emotion |-> "happy", fusion_confidence |-> Scalar("np_float", 1)],
     [discrete_emotion |-> "neutral", fusion_confidence |-> Scalar("float", 2)]}

FusionFaults == {"none", "fuse", "open", "dump"}

SummaryFaults == {"none", "analyze", "open", "dump"}

(***************************************************************************)
(* Spec: main() constructs the pipeline and calls run_demo                 *)
(***************************************************************************)
\* what a finished stage leaves in the bookkeeping of run_demo
AfterStage(o) ==
    /\ self' = o.self
    /\ fs' = o.fs
    /\ status' = [status EXCEPT ![StageAt(pc)] = o.how]
    /\ returned' = IF StageAt(pc) \in PredictionStages
                   THEN [returned EXCEPT ![StageAt(pc)] = o.ret]
                   ELSE returned
    /\ log' = Append(log, StageAt(pc))
    /\ pc' = IF o.how = "raised" THEN "aborted" ELSE StepAfter(pc)

Construct ==
    /\ pc = "start"
    /\ \E weights_ok, detector_ok, fusion_ok \in BOOLEAN :
        /\ self' = _initialize_components(self, weights_ok, detector_ok, fusion_ok)
        /\ env' = [env EXCEPT !.weights_ok = weights_ok]
    /\ pc' = "step1"
    /\ UNCHANGED <<fs, cap, returned, status, log, demo_result>>
    /\ UNCHANGED fnVars

ProcessBiosignalData ==
    /\ pc \in {"step1", "step2", "step3", "step4"}
    /\ StageAt(pc) = "process_biosignal_data"
    /\ \E csv \in CsvInputs, fault \in BioFaults :
        \E outs \in [1..Len(PpgSegments(PpgPoints(csv.rows))) -> ModelOutputs] :
            /\ AfterStage(process_biosignal_data(self, fs, csv, outs, fault))
            /\ env' = [env EXCEPT !.ppg_points =
                        IF csv.readable /\ fault # "read_csv" /\ self.biosignal_model # "None"
                        THEN PpgPoints(csv.rows) ELSE -1]
    /\ UNCHANGED <<cap, demo_result>>
    /\ UNCHANGED fnVars

ProcessVideoData ==
    /\ pc \in {"step1", "step2", "step3", "step4"}
    /\ StageAt(pc) = "process_video_data"
    /\ \E video \in VideoInputs, det \in DetectorRuns, fault \in VideoFaults :
        LET o == process_video_data(self, fs, video, det, fault)
        IN  /\ AfterStage(o)
            /\ cap' = o.cap
    /\ UNCHANGED <<env, demo_result>>
    /\ UNCHANGED fnVars

PerformFusion ==
    /\ pc \in {"step1", "step2", "step3", "step4"}
    /\ StageAt(pc) = "perform_fusion"
    /\ \E out \in FusionOutputs, fault \in FusionFaults :
        /\ AfterStage(perform_fusion(self, fs, out, fault))
        /\ env' = [env EXCEPT !.fusion_fault =
                    IF self.fusion_module # "None"
                        /\ (self.biosignal_predictions # <<>> \/ self.visual_predictions # <<>>)
                    THEN fault ELSE "unset"]
    /\ UNCHANGED <<cap, demo_result>>
    /\ UNCHANGED fnVars

GenerateSummaryReport ==
    /\ pc \in {"step1", "step2", "step3", "step4"}
    /\ StageAt(pc) = "_generate_summary_report"
    /\ \E fault \in SummaryFaults :
        AfterStage(_generate_summary_report(self, fs, fault))
    /\ UNCHANGED <<cap, env, demo_result>>
    /\ UNCHANGED fnVars

RunDemoReturn ==
    /\ pc = "return"
    /\ demo_result' = DemoResult(self)
    /\ pc' = "done"
    /\ UNCHANGED <<self, fs, cap, returned, status, log, env>>
    /\ UNCHANGED fnVars

Next ==
    \/ Construct
    \/ ProcessBiosignalData
    \/ ProcessVideoData
    \/ PerformFusion
    \/ GenerateSummaryReport
    \/ RunDemoReturn

Spec == Init /\ [][Next]_vars

(***************************************************************************)
(* One call of a stage method on a constructed pipeline, with its inputs   *)
(* and its outcome kept for inspection.                                    *)
(***************************************************************************)
\* visual_predictions as an earlier successful call left it
EarlierVisual == FaceRecords(2, 10, <<FaceResult(1)>>)

Pipelines ==
    {[_initialize_components(self, TRUE, detector_ok, TRUE)
        EXCEPT !.visual_predictions = earlier] :
            detector_ok \in BOOLEAN, earlier \in {<<>>, EarlierVisual}}

CallProcessVideoData ==
    /\ call = "idle"
    /\ pc = "start"
    /\ UNCHANGED pipeVars
    /\ \E s \in Pipelines, video \in VideoInputs, det \in DetectorRuns,
          fault \in VideoFaults :
        /\ call' = "process_video_data"
        /\ args' = [self |-> s, fs |-> fs, video |-> video, det |-> det,
                    fault |-> fault]
        /\ result' = process_video_data(s, fs, video, det, fault)

\* the cell of row i: not a string (NaN, a number), or a string whose j-th
\* piece is the int TokenValue(i, j) or something int() rejects
TokenValue(i, j) == i * (MaxTokens + 1) + j

TokenRows(i) ==
    {[is_str |-> FALSE, tokens |-> <<>>]}
        \cup {[is_str |-> TRUE,
               tokens |-> [j \in 1..n |-> [valid |-> ok[j], v |-> TokenValue(i, j)]]] :
                    n \in 1..MaxTokens, ok \in [1..MaxTokens -> BOOLEAN]}

RECURSIVE TokenCsvsOfLen(_)
TokenCsvsOfLen(k) ==
    IF k = 0 THEN {<<>>}
    ELSE {Append(rows, row) : rows \in TokenCsvsOfLen(k - 1), row \in TokenRows(k)}

TokenCsvs == UNION {TokenCsvsOfLen(k) : k \in 0..MaxTokenRows}

CallCollectPpgData ==
    /\ call = "idle"
    /\ pc = "start"
    /\ UNCHANGED pipeVars
    /\ \E rows \in TokenCsvs :
        /\ call' = "collect_ppg_data"
        /\ args' = [rows |-> rows]
        /\ result' = CollectPpgData(rows)

StageNext ==
    \/ CallProcessVideoData
    \/ CallCollectPpgData

SpecStage == Init /\ [][StageNext]_vars

(***************************************************************************)
(* Stage methods called any number of times, in any order, on one          *)
(* pipeline object (the methods are public; run_demo is one such order).   *)
(* pc stays at "step1": constructed, no run_demo in progress.  call and    *)
(* args hold the last call and its fault, result what the most recent      *)
(* successful call of each stage returned.                                 *)
(***************************************************************************)
\* a CSV without rows, or with one well-formed row
AnyCsvs ==
    {csv \in CsvInputs :
        csv.readable /\ Len(csv.rows) <= 1
            /\ \A i \in DOMAIN csv.rows : csv.rows[i].is_str /\ csv.rows[i].parses}

\* a video that does not open, or one of one or two frames at 0.4 or 0.5 fps
AnyVideos ==
    {video \in VideoInputs :
        \/ ~video.opened
        \/ video.frames \in 1..2 /\ video.fps10 \in {4, 5} /\ video.total_frames # 0}

AnyDetectorRuns == {det \in DetectorRuns : \A n \in DOMAIN det : Len(det[n]) = 1}

AfterCall(st, o, fault) ==
    /\ self' = o.self
    /\ fs' = o.fs
    /\ status' = [status EXCEPT ![st] = o.how]
    /\ returned' = [returned EXCEPT ![st] = o.ret]
    /\ log' = Append(log, st)
    /\ call' = st
    /\ args' = [fault |-> fault]
    /\ result' = IF o.how = "ok" THEN (st :> o.ret) @@ result ELSE result
    /\ UNCHANGED <<pc, env, demo_result>>

AnyProcessBiosignalData ==
    /\ pc = "step1"
    /\ Len(log) < MaxCalls
    /\ \E csv \in AnyCsvs, fault \in BioFaults :
        \E outs \in [1..Len(PpgSegments(PpgPoints(csv.rows))) -> ModelOutputs] :
            AfterCall("process_biosignal_data",
                      process_biosignal_data(self, fs, csv, outs, fault), fault)
    /\ UNCHANGED cap

AnyProcessVideoData ==
    /\ pc = "step1"
    /\ Len(log) < MaxCalls
    /\ \E video \in AnyVideos, det \in AnyDetectorRuns, fault \in VideoFaults :
        LET o == process_video_data(self, fs, video, det, fault)
        IN  /\ AfterCall("process_video_data", o, fault)
            /\ cap' = o.cap

AnyPerformFusion ==
    /\ pc = "step1"
    /\ Len(log) < MaxCalls
    /\ \E out \in FusionOutputs, fault \in FusionFaults :
        AfterCall("perform_fusion", perform_fusion(self, fs, out, fault), fault)
    /\ UNCHANGED cap

CallsNext ==
    \/ Construct
    \/ AnyProcessBiosignalData
    \/ AnyProcessVideoData
    \/ AnyPerformFusion

SpecCalls == Init /\ [][CallsNext]_vars

(***************************************************************************)
(* Claims about the utilities (checked under SpecFn)                       *)
(***************************************************************************)

\* C1: segmenting a signal of length L with window W returns exactly
\* floor(L / W) windows, the k-th (from 0) being the samples at indices
\* [k*W, (k+1)*W): every window has length W, no index is in two windows and
\* the trailing L mod W samples are dropped.
C1_SegmentWindows ==
    call \in {"_extract_pulses", "segment_loop"} =>
        LET L == Len(args.signal)
            W == args.pulse_len
            n == Len(result)
        IN  /\ n * W <= L
            /\ L < (n + 1) * W
            /\ \A k \in 1..n :
                /\ Len(result[k]) = W
                /\ \A j \in 1..W : result[k][j] = args.signal[(k - 1) * W + j]
            /\ \A k1, k2 \in 1..n : \A j1 \in 1..Len(result[k1]), j2 \in 1..Len(result[k2]) :
                result[k1][j1] = result[k2][j2] => (k1 = k2 /\ j1 = j2)
            /\ \A k \in 1..n : \A j \in 1..Len(result[k]) : result[k][j] < n * W

C1_Witness ==
    /\ call = "_extract_pulses"
    /\ args.pulse_len = 3
    /\ Len(args.signal) = 8
    /\ result = << <<0, 1, 2>>, <<3, 4, 5>> >>

\* C2: the matcher selects a visual record whose |k * 2.2 - timestamp| is
\* minimal over the whole list, the first in list order among those with that
\* minimal difference; for timestamps 0.0, 2.0, 4.0 and query 2.2 it selects
\* the record at 2.0.
C2_NearestFirst ==
    call = "best_visual_match" =>
        LET vis == args.visual_predictions
            q == args.bio_idx * SegmentDuration
            D(i) == Abs(q - vis[i].timestamp)
        IN  /\ result \in DOMAIN vis
            /\ \A j \in DOMAIN vis : D(result) <= D(j)
            /\ \A j \in 1..(result - 1) : D(j) > D(result)
            /\ ([i \in DOMAIN vis |-> vis[i].timestamp] = <<0, 10, 20>> /\ args.bio_idx = 1
                    => result = 2)

\* a tie: 2.0 s and 2.4 s are both 0.2 s from the query 2.2 s
C2_Witness ==
    /\ call = "best_visual_match"
    /\ args.bio_idx = 1
    /\ [i \in DOMAIN args.visual_predictions |-> args.visual_predictions[i].timestamp]
            = <<0, 12, 10>>
    /\ result = 2

\* C3 as stated: the resampled length is round(duration * target_rate).
C3_LengthRounded ==
    call \in {"_upsample_to_64hz", "upsample"} =>
        2 * Abs(Len(result) * args.original_rate - Len(args.x) * args.target_rate)
            <= args.original_rate

\* C3 as amended: the resampled length is int(duration * target_rate), the
\* product truncated: floor(L * target_rate / original_rate).
C3_LengthTruncated ==
    call \in {"_upsample_to_64hz", "upsample"} =>
        /\ Len(result) * args.original_rate <= Len(args.x) * args.target_rate
        /\ Len(args.x) * args.target_rate < (Len(result) + 1) * args.original_rate

\* one input sample: 0.04 s * 64 Hz = 2.56, truncated to 2
C3_Witness ==
    /\ call = "_upsample_to_64hz"
    /\ Len(args.x) = 1
    /\ Len(result) = 2

RECURSIVE HasNumpy(_)
HasNumpy(obj) ==
    \/ obj.t \in NumpyScalarTypes \cup {"ndarray"}
    \/ \E i \in DOMAIN obj.keys : HasNumpy(obj.keys[i])
    \/ \E i \in DOMAIN obj.items : HasNumpy(obj.items[i])

RECURSIVE SameShape(_, _)
SameShape(a, b) ==
    /\ (IF a.t = "ndarray" THEN "list" ELSE NativeType(a.t)) = b.t
    /\ Len(a.keys) = Len(b.keys)
    /\ Len(a.items) = Len(b.items)
    /\ \A i \in DOMAIN a.items : SameShape(a.items[i], b.items[i])

\* C8 as stated: after convert_numpy_types no NumPy type remains at any
\* position (values, list / tuple items, dict keys), the shape is kept, and a
\* second application changes nothing.
C8_NoNumpyLeft ==
    call = "convert_numpy_types" =>
        /\ ~HasNumpy(result.once)
        /\ SameShape(args.obj, result.once)
        /\ result.twice = result.once

(***************************************************************************)
(* Claims about the pipeline (checked under Spec)                          *)
(***************************************************************************)
RunOrder ==
    <<"process_biosignal_data", "process_video_data", "perform_fusion",
      "_generate_summary_report">>

\* the biosignal stage ran with a loaded model on a CSV that gave no PPG point
ZeroPpgPoints ==
    /\ status["process_biosignal_data"] # "pending"
    /\ self.biosignal_model = "loaded"
    /\ env.ppg_points = 0

\* C4 as stated: on a CSV that yields zero PPG points process_biosignal_data
\* returns an empty list, writes biosignal_predictions.json holding [] and
\* raises nothing.
C4_EmptyCsvWritesEmptyArray ==
    ZeroPpgPoints =>
        /\ returned["process_biosignal_data"] = <<>>
        /\ pc # "aborted"
        /\ fs[BioFile] = File("written", <<>>)

\* C4 as amended: on such a CSV process_biosignal_data returns an empty list
\* and raises nothing, and it writes no biosignal_predictions.json: the file
\* stays as it was (absent, or that of an earlier run) and the stored list
\* stays empty.
C4_EmptyCsvWritesNothing ==
    ZeroPpgPoints =>
        /\ returned["process_biosignal_data"] = <<>>
        /\ status["process_biosignal_data"] = "no_input"
        /\ pc # "aborted"
        /\ fs[BioFile] \in {File("absent", <<>>), File("stale", <<StaleRecord>>)}
        /\ self.biosignal_predictions = <<>>

C4_Witness ==
    /\ ZeroPpgPoints
    /\ pc = "done"
    /\ fs[BioFile].state = "absent"
    /\ fs[VisualFile].state = "written"

\* C5: when loading the weights fails, construction completes with
\* biosignal_model = None, run_demo calls every stage and none raises, the
\* biosignal stage produces no predictions, and the fused result is empty
\* whatever the video stage produced.
C5_ModelUnavailable ==
    (pc # "start" /\ ~env.weights_ok) =>
        /\ self.biosignal_model = "None"
        /\ pc # "aborted"
        /\ status["process_biosignal_data"] \in {"pending", "unavailable"}
        /\ self.biosignal_predictions = <<>>
        /\ returned["process_biosignal_data"] = <<>>
        /\ fs[BioFile].state \in {"absent", "stale"}
        /\ self.fused_predictions = <<>>
        /\ returned["perform_fusion"] = <<>>
        /\ fs[FusedFile].state = "written" => fs[FusedFile].data = <<>>
        /\ pc = "done" =>
            /\ log = RunOrder
            /\ demo_result.biosignal_predictions = 0
            /\ demo_result.fused_predictions = 0

C5_Witness ==
    /\ pc = "done"
    /\ ~env.weights_ok
    /\ Len(self.visual_predictions) >= 2
    /\ status["perform_fusion"] = "ok"
    /\ fs[FusedFile] = File("written", <<>>)

\* C6: an exception raised while a stage runs is caught inside the stage:
\* none reaches run_demo, a prediction stage that caught one returns [], and
\* run_demo goes on to call every later stage.
C6_StagesCatch ==
    /\ pc # "aborted"
    /\ \A st \in Stages : status[st] # "raised"
    /\ \A st \in PredictionStages : status[st] = "caught" => returned[st] = <<>>
    /\ \A i \in DOMAIN log :
        status[log[i]] = "caught" =>
            \/ Len(log) > i
            \/ pc = (IF i = Len(RunOrder) THEN "return" ELSE StepAfter(<<"step1", "step2", "step3">>[i]))
            \/ pc = "done"
    /\ pc = "done" => log = RunOrder

C6_Witness ==
    /\ pc = "done"
    /\ status["process_biosignal_data"] = "caught"
    /\ status["process_video_data"] = "ok"
    /\ status["perform_fusion"] = "caught"
    /\ status["_generate_summary_report"] = "caught"

\* C9: run_demo calls the four stages in the order biosignal, video, fusion,
\* summary, each once and one after the other; it reaches the summary stage
\* and returns, and the counts it returns are the lengths of the stored
\* lists at that moment.
C9_RunOrder ==
    /\ Len(log) <= Len(RunOrder)
    /\ \A i \in DOMAIN log : log[i] = RunOrder[i]
    /\ pc \in {"start", "step1"} => log = <<>>
    /\ pc = "step2" => Len(log) = 1
    /\ pc = "step3" => Len(log) = 2
    /\ pc = "step4" => Len(log) = 3
    /\ pc \in {"return", "done"} => log = RunOrder
    /\ pc # "aborted"
    /\ demo_result.returned <=> pc = "done"
    /\ pc = "done" =>
        /\ demo_result.biosignal_predictions = Len(self.biosignal_predictions)
        /\ demo_result.visual_predictions = Len(self.visual_predictions)
        /\ demo_result.fused_predictions = Len(self.fused_predictions)

C9_Witness ==
    /\ pc = "done"
    /\ demo_result.biosignal_predictions = 2
    /\ demo_result.visual_predictions = 3
    /\ demo_result.fused_predictions = 2
    /\ status["_generate_summary_report"] = "ok"

\* data holds the records of list, in order, NumPy numbers turned native
SameRecords(data, list) ==
    /\ Len(data) = Len(list)
    /\ \A i \in DOMAIN list :
        /\ DOMAIN data[i] = DOMAIN list[i]
        /\ \A k \in DOMAIN list[i] :
            IF k \in PyValFields
            THEN /\ data[i][k].v = list[i][k].v
                 /\ data[i][k].t = NativeType(list[i][k].t)
            ELSE data[i][k] = list[i][k]

FileMatchesList ==
    /\ status["process_biosignal_data"] = "ok" =>
        /\ fs[BioFile].state = "written"
        /\ SameRecords(fs[BioFile].data, self.biosignal_predictions)
    /\ status["process_video_data"] = "ok" =>
        /\ fs[VisualFile].state = "written"
        /\ SameRecords(fs[VisualFile].data, self.visual_predictions)
    /\ status["perform_fusion"] = "ok" =>
        /\ fs[FusedFile].state = "written"
        /\ SameRecords(fs[FusedFile].data, self.fused_predictions)

FusionAndSummaryKeepLists ==
    (pc \in {"step3", "step4"}) =>
        /\ self'.biosignal_predictions = self.biosignal_predictions
        /\ self'.visual_predictions = self.visual_predictions

\* C10: perform_fusion and _generate_summary_report leave the stored
\* biosignal and visual lists as they were, and the array a stage writes to
\* its predictions file has the records of the list it stores, in order.
C10_ListsKept == [][FusionAndSummaryKeepLists]_vars /\ []FileMatchesList

C10_Witness ==
    /\ pc = "done"
    /\ \A st \in Stages : status[st] = "ok"
    /\ Len(self.biosignal_predictions) = 2
    /\ Len(self.visual_predictions) = 3
    /\ self.visual_predictions[1].confidence.t = "np_float"
    /\ fs[VisualFile].data[1].confidence.t = "float"
    /\ Len(fs[FusedFile].data) = 2


(***************************************************************************)
(* Claims about a single stage call (checked under SpecStage)              *)
(***************************************************************************)

\* the positive multiples of frame_interval among the frame counts 1..frames
SampledFrames(video) ==
    LET frame_interval == (2 * video.fps10) \div 10
    IN  {n \in 1..video.frames : \E j \in 1..n : n = j * frame_interval}

\* l lists the members of S in increasing order
ListsInOrder(l, S) ==
    /\ Len(l) = Cardinality(S)
    /\ \A i \in DOMAIN l : l[i] \in S
    /\ \A i, j \in DOMAIN l : i < j => l[i] < l[j]

\* r is the record of face face_idx (0-based) of a sampled frame
RecordOfFace(r, video, det) ==
    /\ r.frame_id \in SampledFrames(video)
    /\ r.face_id \in 0..(Len(det[r.frame_id]) - 1)
    /\ r.timestamp * video.fps10 = r.frame_id * 50
    /\ r.emotion = det[r.frame_id][r.face_id + 1].emotion
    /\ r.confidence = det[r.frame_id][r.face_id + 1].confidence

\* C11: process_video_data counts frames from 1 and runs face detection on
\* exactly the frames whose count is a positive multiple of
\* frame_interval = int(fps * 2); a call that returns its list holds exactly
\* one record per face the detector returned for such a frame, in frame order
\* then face order (face_id 0, 1, ...), with frame_id the frame count and
\* timestamp frame count / fps, and no other record, so the list is ordered by
\* non-decreasing timestamp.
C11_SampledFramesOnly ==
    /\ call = "process_video_data" =>
            /\ \A i \in DOMAIN result.detected :
                    result.detected[i] \in SampledFrames(args.video)
            /\ \A i, j \in DOMAIN result.detected :
                    i < j => result.detected[i] < result.detected[j]
    /\ (call = "process_video_data" /\ result.how = "ok") =>
        LET video == args.video
            det == args.det
            l == result.ret
        IN  /\ ListsInOrder(result.detected, SampledFrames(video))
            /\ \A i \in DOMAIN l : RecordOfFace(l[i], video, det)
            /\ \A n \in SampledFrames(video) : \A face_idx \in 0..(Len(det[n]) - 1) :
                    \E i \in DOMAIN l : l[i].frame_id = n /\ l[i].face_id = face_idx
            /\ \A i, j \in DOMAIN l : i < j =>
                    \/ l[i].frame_id < l[j].frame_id
                    \/ l[i].frame_id = l[j].frame_id /\ l[i].face_id < l[j].face_id
            /\ \A i, j \in DOMAIN l : i < j => l[i].timestamp <= l[j].timestamp

\* a 1 fps video of five frames: frames 2 and 4 are sampled, frames 1, 3 and 5
\* are not, and the detector returned two faces for frame 2
C11_Witness ==
    /\ call = "process_video_data"
    /\ result.how = "ok"
    /\ args.video.fps10 = 10
    /\ args.video.frames = MaxFrames
    /\ result.detected = <<2, 4>>
    /\ Len(args.det[2]) = 2
    /\ Len(args.det[4]) = 1
    /\ Len(args.det[1]) > 0
    /\ Len(result.ret) = 3
    /\ result.ret[2].face_id = 1
    /\ result.ret[3].frame_id = 4

\* C15: if the video opens and delivers at least one frame but its reported
\* frame rate gives frame_interval = int(fps * 2) = 0, process_video_data
\* fails on the first frame with a division by zero that is caught: it
\* returns an empty list, writes no visual_predictions.json, leaves
\* visual_predictions unchanged, and never releases the capture.
C15_ZeroIntervalCaught ==
    (/\ call = "process_video_data"
     /\ args.self.visual_detector # "None"
     /\ args.fault # "capture"
     /\ args.video.opened
     /\ args.video.frames >= 1
     /\ 2 * args.video.fps10 < 10) =>
        /\ result.how = "caught"
        /\ result.ret = <<>>
        /\ result.detected = <<>>
        /\ result.fs = args.fs
        /\ result.self = args.self
        /\ result.cap = "open"

\* a video reporting 0.4 fps, on a pipeline that holds an earlier visual list
\* and an earlier visual_predictions.json
C15_Witness ==
    /\ call = "process_video_data"
    /\ args.self.visual_detector = "loaded"
    /\ args.fault = "none"
    /\ args.video.opened
    /\ args.video.frames = 3
    /\ args.video.fps10 = 4
    /\ args.self.visual_predictions # <<>>
    /\ args.fs[VisualFile].state = "stale"
    /\ result.how = "caught"
    /\ result.self.visual_predictions = args.self.visual_predictions
    /\ result.cap = "open"


\* the row parsed completely: a string every piece of which int() accepts
ParsedCompletely(row) ==
    row.is_str /\ \A j \in DOMAIN row.tokens : row.tokens[j].valid

\* the values of rows i.., for the rows that parsed completely, in row order
RECURSIVE ValuesOfParsedRows(_, _)
ValuesOfParsedRows(rows, i) ==
    IF i > Len(rows) THEN <<>>
    ELSE (IF ParsedCompletely(rows[i])
          THEN [j \in DOMAIN rows[i].tokens |-> rows[i].tokens[j].v]
          ELSE <<>>) \o ValuesOfParsedRows(rows, i + 1)

\* C14: while process_biosignal_data reads the CSV rows, a row whose ppg_gr
\* is not a string or whose parsing fails on any element contributes no
\* sample at all (never a prefix of its values) and does not stop the loop;
\* the collected sequence is exactly the concatenation, in row order, of the
\* values of the rows that parsed completely.
C14_RowsAllOrNothing ==
    call = "collect_ppg_data" =>
        /\ ~result.raised
        /\ result.rows_read = Len(args.rows)
        /\ result.ppg_data = ValuesOfParsedRows(args.rows, 1)
        /\ \A i \in DOMAIN args.rows : ~ParsedCompletely(args.rows[i]) =>
                \A h \in DOMAIN result.ppg_data, j \in 1..MaxTokens :
                    result.ppg_data[h] # TokenValue(i, j)
        /\ Len(result.ppg_data)
                = PpgPoints([i \in DOMAIN args.rows |-> RowSummary(args.rows[i])])

\* the first row fails on its second element after a good first one, the
\* second row parses: only the second row's values are collected
C14_Witness ==
    /\ call = "collect_ppg_data"
    /\ Len(args.rows) = 2
    /\ args.rows[1].is_str
    /\ Len(args.rows[1].tokens) = 2
    /\ args.rows[1].tokens[1].valid
    /\ ~args.rows[1].tokens[2].valid
    /\ ParsedCompletely(args.rows[2])
    /\ Len(args.rows[2].tokens) = 2
    /\ result.ppg_data = <<TokenValue(2, 1), TokenValue(2, 2)>>


(***************************************************************************)
(* Claims about the fused list (checked under Spec)                        *)
(***************************************************************************)

\* the first position of visual whose timestamp is nearest to the start of
\* the k-th (1-based) biosignal segment
NearestVisual(k, visual) ==
    LET diff(m) == Abs((k - 1) * SegmentDuration - visual[m].timestamp)
    IN  CHOOSE m \in DOMAIN visual :
            /\ \A j \in DOMAIN visual : diff(m) <= diff(j)
            /\ \A j \in 1..(m - 1) : diff(j) > diff(m)

\* perform_fusion got into its try body and nothing there raised
FusionRaisedNothing == env.fusion_fault = "none"

C12_EmptyVisualCase ==
    /\ FusionRaisedNothing
    /\ self.visual_predictions = <<>>
    /\ self.biosignal_predictions # <<>>
    /\ fs[FusedFile] = File("written", <<>>)


(***************************************************************************)
(* Claims about repeated stage calls (checked under SpecCalls)             *)
(***************************************************************************)

StoredList(s, st) ==
    CASE st = "process_biosignal_data" -> s.biosignal_predictions
      [] st = "process_video_data" -> s.visual_predictions
      [] st = "perform_fusion" -> s.fused_predictions

FileOf(st) ==
    CASE st = "process_biosignal_data" -> BioFile
      [] st = "process_video_data" -> VisualFile
      [] st = "perform_fusion" -> FusedFile

\* this step is a call of stage st
Called(st) == log' = Append(log, st)

\* what the most recent successful call of st returned, [] if there was none
LastSuccessful(st) == IF st \in DOMAIN result THEN result[st] ELSE <<>>

\* the stored list changes only in a successful call, which has written the
\* stage's file and stores what it returns
StoredOnSuccessOnly ==
    \A st \in PredictionStages :
        /\ StoredList(self', st) # StoredList(self, st) =>
                Called(st) /\ status'[st] = "ok"
        /\ (Called(st) /\ status'[st] = "ok") =>
                /\ StoredList(self', st) = returned'[st]
                /\ fs'[FileOf(st)].state = "written"
                /\ Len(fs'[FileOf(st)].data) = Len(returned'[st])

\* a call that returns early or catches an exception returns [] and leaves
\* the object and every output file as they were
FailedCallKeepsListAndFiles ==
    \A st \in PredictionStages :
        (Called(st) /\ status'[st] # "ok") =>
            /\ returned'[st] = <<>>
            /\ self' = self
            /\ fs' = fs

\* a call that returns early or catches an exception returns [] and leaves
\* the object as it was; the output files are as they were, except that an
\* exception out of json.dump leaves the stage's own file truncated
FailedCallKeepsList ==
    \A st \in PredictionStages :
        (Called(st) /\ status'[st] # "ok") =>
            /\ returned'[st] = <<>>
            /\ self' = self
            /\ \/ fs' = fs
               \/ /\ args'.fault = "dump"
                  /\ status'[st] = "caught"
                  /\ fs' = [fs EXCEPT ![FileOf(st)] = File("partial", <<>>)]

\* the stored list is the result of the most recent successful call
StoredIsLastSuccessful ==
    \A st \in PredictionStages : StoredList(self, st) = LastSuccessful(st)

\* C13 as stated: in the three prediction stages the stored list is assigned
\* only on the success path, after the stage's JSON file has been written; a
\* call that returns early or catches an exception returns [] and leaves the
\* stored list and any previously written output file unchanged, so after any
\* sequence of stage calls the stored list equals the result of the most
\* recent successful call of that stage (or the initial empty list).
C13_FailedCallChangesNothing ==
    /\ [][StoredOnSuccessOnly /\ FailedCallKeepsListAndFiles]_vars
    /\ []StoredIsLastSuccessful

\* C13, amended: as above, but a previously written output file is unchanged
\* only if the exception is raised before the file is opened for writing;
\* an exception out of json.dump leaves the stage's file truncated.
C13_FailedCallKeepsStoredList ==
    /\ [][StoredOnSuccessOnly /\ FailedCallKeepsList]_vars
    /\ []StoredIsLastSuccessful

\* a successful process_biosignal_data followed by one whose json.dump
\* raised: the call returned [], the stored list is still the first call's
\* result, and biosignal_predictions.json is truncated
C13_Witness ==
    /\ call = "process_biosignal_data"
    /\ args.fault = "dump"
    /\ status["process_biosignal_data"] = "caught"
    /\ returned["process_biosignal_data"] = <<>>
    /\ self.biosignal_predictions # <<>>
    /\ self.biosignal_predictions = LastSuccessful("process_biosignal_data")
    /\ fs[BioFile].state = "partial"

=============================================================================
